---- MODULE Spec2Model ----
(***************************************************************************)
(* GoBase: the generic SQL query builder (package query), the generic      *)
(* repository built on it (package repository), the result envelope        *)
(* (package result) and the model field registry (package utils).          *)
(*                                                                         *)
(* SQL texts are TLA+ strings, assembled with \o exactly as the Go code    *)
(* assembles them with strings.Builder and strings.Join.  Argument lists   *)
(* are sequences of integers.                                              *)
(***************************************************************************)
EXTENDS Integers, Sequences, FiniteSets, TLC

VARIABLES T, qb, calls, out,            \* one QueryBuilder[T] and its caller
          rows, sent, pc, cursor, results, ret,  \* one GenericRepository[T, TKey]
          envelopes,                             \* calls of the result constructors
          modelFieldCache, registrar, registered, lookup   \* the field registry

bvars == <<qb, calls, out>>
rvars == <<rows, sent, pc, cursor, results, ret>>
uvars == <<envelopes, modelFieldCache, registrar, registered, lookup>>
vars == <<T, qb, calls, out, rows, sent, pc, cursor, results, ret,
          envelopes, modelFieldCache, registrar, registered, lookup>>

----------------------------------------------------------------------------
(* Bounds *)

MaxCalls == 4      \* configuration calls chained on one builder
MaxBuilds == 2     \* Build() calls on one builder
MaxOps == 2        \* repository method calls on one repository
MaxEnvelopes == 2  \* calls of the result constructors
MaxRegs == 2       \* RegisterModels calls

----------------------------------------------------------------------------
(* Entity types used as the type parameter T *)

EntityTypes == {"User", "Metric", "Empty"}

\* reflect.TypeOf(data).Field(i).Name, i = 0 .. NumField()-1, in declaration order
FieldNames(t) ==
    CASE t = "User" -> <<"ID", "Age">>
      [] t = "Metric" -> <<"Value">>
      [] t = "Empty" -> <<>>

Ids == {1, 2}

\* the values of type T the callers pass: v.Field(i).Interface() for each i
Entities(t) ==
    CASE t = "User" -> {<<i, 30>> : i \in Ids}
      [] t = "Metric" -> {<<5>>, <<0>>}
      [] t = "Empty" -> {<<>>}

\* reflect.Value.FieldByName: index of the field, 0 when there is none
FieldIndex(t, name) ==
    IF \E i \in 1..Len(FieldNames(t)) : FieldNames(t)[i] = name
    THEN CHOOSE i \in 1..Len(FieldNames(t)) : FieldNames(t)[i] = name
    ELSE 0

----------------------------------------------------------------------------
(* package strings *)

UpperLetters == "ABCDEFGHIJKLMNOPQRSTUVWXYZ"
LowerLetters == "abcdefghijklmnopqrstuvwxyz"

LowerChar(c) ==
    IF \E i \in 1..Len(UpperLetters) : SubSeq(UpperLetters, i, i) = c
    THEN LET i == CHOOSE j \in 1..Len(UpperLetters) : SubSeq(UpperLetters, j, j) = c
         IN SubSeq(LowerLetters, i, i)
    ELSE c

RECURSIVE ToLower(_)
ToLower(s) ==
    IF Len(s) = 0 THEN ""
    ELSE LowerChar(SubSeq(s, 1, 1)) \o ToLower(SubSeq(s, 2, Len(s)))

RECURSIVE StringsJoin(_, _)
StringsJoin(elems, sep) ==
    IF Len(elems) = 0 THEN ""
    ELSE IF Len(elems) = 1 THEN elems[1]
    ELSE elems[1] \o sep \o StringsJoin(Tail(elems), sep)

HasPrefix(s, p) == Len(s) >= Len(p) /\ SubSeq(s, 1, Len(p)) = p

Contains(s, sub) ==
    \E i \in 1..(Len(s) + 1) :
        i + Len(sub) - 1 <= Len(s) /\ SubSeq(s, i, i + Len(sub) - 1) = sub

\* number of occurrences of the one-character string c in s
Count(s, c) == Cardinality({i \in 1..Len(s) : SubSeq(s, i, i) = c})

----------------------------------------------------------------------------
(* type QueryBuilder[T] and its methods, as functions on the struct value *)

NewQueryBuilder ==
    [selectFields |-> <<>>, whereClauses |-> <<>>, whereArgs |-> <<>>,
     joins |-> <<>>, limit |-> 0, orderBy |-> <<>>,
     insertFields |-> <<>>, insertValues |-> <<>>, updateFields |-> <<>>]

\* Insert leaving out the fields that hold the zero value
Insert_SkipZero(b, t, data) ==
    LET IsSet(i) == data[i] # 0
        idx == SelectSeq([i \in 1..Len(FieldNames(t)) |-> i], IsSet)
    IN [b EXCEPT !.insertFields = @ \o [k \in 1..Len(idx) |-> FieldNames(t)[idx[k]]],
                 !.insertValues = @ \o [k \in 1..Len(idx) |-> data[idx[k]]]]

Insert(b, t, data) ==
    [b EXCEPT !.insertFields = @ \o FieldNames(t),
              !.insertValues = @ \o data]

\* Update leaving the primary key out of the SET list
Update_SkipID(b, t, data) ==
    LET keep == {i \in 1..Len(FieldNames(t)) : FieldNames(t)[i] # "ID"}
        IsKept(i) == i \in keep
        idx == SelectSeq([i \in 1..Len(FieldNames(t)) |-> i], IsKept)
    IN [b EXCEPT !.updateFields = @ \o [k \in 1..Len(idx) |-> FieldNames(t)[idx[k]] \o " = ?"],
                 !.whereArgs = @ \o [k \in 1..Len(idx) |-> data[idx[k]]]]

Update(b, t, data) ==
    [b EXCEPT !.updateFields = @ \o [i \in 1..Len(FieldNames(t)) |-> FieldNames(t)[i] \o " = ?"],
              !.whereArgs = @ \o data]

\* Delete marking the builder with a where-clause that matches every row
Delete_AllRows(b) == [b EXCEPT !.whereClauses = Append(@, "1 = 1")]

Delete(b) == b

Select(b, fields) == [b EXCEPT !.selectFields = @ \o fields]

\* WhereEqual putting the new condition in front of the earlier ones
WhereEqual_Prepend(b, field, value) ==
    [b EXCEPT !.whereClauses = <<field \o " = ?">> \o @,
              !.whereArgs = Append(@, value)]

WhereEqual(b, field, value) ==
    [b EXCEPT !.whereClauses = Append(@, field \o " = ?"),
              !.whereArgs = Append(@, value)]

OrderByASC(b, field) == [b EXCEPT !.orderBy = Append(@, field \o " ASC")]

OrderByDESC(b, field) == [b EXCEPT !.orderBy = Append(@, field \o " DESC")]

Join(b, table, onCondition) ==
    [b EXCEPT !.joins = Append(@, "JOIN " \o table \o " ON " \o onCondition)]

\* Limit binding its argument when it is called
Limit_AppendAtCall(b, n) == [b EXCEPT !.limit = n, !.whereArgs = Append(@, n)]

Limit(b, n) == [b EXCEPT !.limit = n]

\* TableName without the strings.ToLower call
TableName_NoLower(t) == t

TableName(t) == ToLower(t)

whereClause == " WHERE "

\* the INSERT branch returning the where arguments instead of the inserted values
BuildInsert_WhereArgs(b, t) ==
    [sql |-> "INSERT INTO " \o TableName(t) \o " ("
             \o StringsJoin(b.insertFields, ", ")
             \o ") VALUES ("
             \o StringsJoin([i \in 1..Len(b.insertFields) |-> "?"], ", ")
             \o ")",
     args |-> b.whereArgs,
     qb |-> b]

BuildInsert(b, t) ==
    [sql |-> "INSERT INTO " \o TableName(t) \o " ("
             \o StringsJoin(b.insertFields, ", ")
             \o ") VALUES ("
             \o StringsJoin([i \in 1..Len(b.insertFields) |-> "?"], ", ")
             \o ")",
     args |-> b.insertValues,
     qb |-> b]

BuildUpdate(b, t) ==
    [sql |-> "UPDATE " \o TableName(t) \o " SET "
             \o StringsJoin(b.updateFields, ", ")
             \o (IF Len(b.whereClauses) > 0
                 THEN whereClause \o StringsJoin(b.whereClauses, " AND ")
                 ELSE ""),
     args |-> b.whereArgs,
     qb |-> b]

BuildDelete(b, t) ==
    [sql |-> "DELETE FROM " \o TableName(t)
             \o whereClause \o StringsJoin(b.whereClauses, " AND "),
     args |-> b.whereArgs,
     qb |-> b]

\* the SELECT branch appending the limit to a copy of the argument list
BuildSelect_ArgsCopy(b, t) ==
    [sql |-> "SELECT "
             \o (IF Len(b.selectFields) > 0 THEN StringsJoin(b.selectFields, ", ") ELSE "*")
             \o " FROM " \o TableName(t)
             \o (IF Len(b.joins) > 0 THEN " " \o StringsJoin(b.joins, " ") ELSE "")
             \o (IF Len(b.whereClauses) > 0
                 THEN whereClause \o StringsJoin(b.whereClauses, " AND ")
                 ELSE "")
             \o (IF Len(b.orderBy) > 0 THEN " ORDER BY " \o StringsJoin(b.orderBy, ", ") ELSE "")
             \o (IF b.limit > 0 THEN " LIMIT ?" ELSE ""),
     args |-> IF b.limit > 0 THEN Append(b.whereArgs, b.limit) ELSE b.whereArgs,
     qb |-> b]

BuildSelect(b, t) ==
    LET b2 == IF b.limit > 0 THEN [b EXCEPT !.whereArgs = Append(@, b.limit)] ELSE b
    IN [sql |-> "SELECT "
                \o (IF Len(b.selectFields) > 0 THEN StringsJoin(b.selectFields, ", ") ELSE "*")
                \o " FROM " \o TableName(t)
                \o (IF Len(b.joins) > 0 THEN " " \o StringsJoin(b.joins, " ") ELSE "")
                \o (IF Len(b.whereClauses) > 0
                    THEN whereClause \o StringsJoin(b.whereClauses, " AND ")
                    ELSE "")
                \o (IF Len(b.orderBy) > 0 THEN " ORDER BY " \o StringsJoin(b.orderBy, ", ") ELSE "")
                \o (IF b.limit > 0 THEN " LIMIT ?" ELSE ""),
        args |-> b2.whereArgs,
        qb |-> b2]

\* Build with the DELETE test moved in front of the UPDATE test
Build_DeleteFirst(b, t) ==
    IF Len(b.insertFields) > 0 THEN BuildInsert(b, t)
    ELSE IF Len(b.whereClauses) > 0 /\ Len(b.insertFields) = 0 THEN BuildDelete(b, t)
    ELSE IF Len(b.updateFields) > 0 THEN BuildUpdate(b, t)
    ELSE BuildSelect(b, t)

\* Build returns (sql, args) and the builder as Build leaves it
Build(b, t) ==
    IF Len(b.insertFields) > 0 THEN BuildInsert(b, t)
    ELSE IF Len(b.updateFields) > 0 THEN BuildUpdate(b, t)
    ELSE IF Len(b.whereClauses) > 0 /\ Len(b.insertFields) = 0 THEN BuildDelete(b, t)
    ELSE BuildSelect(b, t)

----------------------------------------------------------------------------
(* The caller of one builder: chained configuration calls and Build().     *)
(* calls records which methods the caller has invoked on the builder and   *)
(* how many configuration calls it made; out is what the most recent call  *)
(* returned when that call was Build(), with n the number of consecutive   *)
(* Build() calls.  calls also keeps, in call order, the (field, value)      *)
(* pairs given to WhereEqual, the entities given to Update and the         *)
(* entities given to Insert.                                               *)

SelectInputs == {<<"id", "name">>}
WhereInputs == {<<"age", 25>>, <<"id", 7>>}
OrderFields == {"name"}
JoinInputs == {<<"orders", "user.id = orders.user_id">>}
\* 0 is the limit of a new builder, so Limit is called with the other two cases
LimitInputs == {-1, 10}
\* the builder never looks at the values it is given: one entity of each type
\* is enough for it, the Metric one holding the zero value
CallerEntities(t) ==
    CASE t = "User" -> {<<1, 30>>}
      [] t = "Metric" -> {<<0>>}
      [] t = "Empty" -> {<<>>}

NoCalls == [n |-> 0, ops |-> {}, wheres |-> <<>>, sets |-> <<>>, ins |-> <<>>]

Called(op) == op \in calls.ops

NoOut == [n |-> 0, sql |-> "", args |-> <<>>]

\* every configuration call the caller can make on a builder of type t
ConfigMenu(t) ==
    {[op |-> "Insert", f |-> <<>>, v |-> data] : data \in CallerEntities(t)}
    \cup {[op |-> "Update", f |-> <<>>, v |-> data] : data \in CallerEntities(t)}
    \cup {[op |-> "Delete", f |-> <<>>, v |-> <<>>]}
    \cup {[op |-> "Select", f |-> fields, v |-> <<>>] : fields \in SelectInputs}
    \cup {[op |-> "WhereEqual", f |-> <<w[1]>>, v |-> <<w[2]>>] : w \in WhereInputs}
    \cup {[op |-> "OrderByASC", f |-> <<field>>, v |-> <<>>] : field \in OrderFields}
    \cup {[op |-> "OrderByDESC", f |-> <<field>>, v |-> <<>>] : field \in OrderFields}
    \cup {[op |-> "Join", f |-> j, v |-> <<>>] : j \in JoinInputs}
    \cup {[op |-> "Limit", f |-> <<>>, v |-> <<n>>] : n \in LimitInputs}

\* the builder after the configuration call c
Apply(c, b, t) ==
    CASE c.op = "Insert" -> Insert(b, t, c.v)
      [] c.op = "Update" -> Update(b, t, c.v)
      [] c.op = "Delete" -> Delete(b)
      [] c.op = "Select" -> Select(b, c.f)
      [] c.op = "WhereEqual" -> WhereEqual(b, c.f[1], c.v[1])
      [] c.op = "OrderByASC" -> OrderByASC(b, c.f[1])
      [] c.op = "OrderByDESC" -> OrderByDESC(b, c.f[1])
      [] c.op = "Join" -> Join(b, c.f[1], c.f[2])
      [] c.op = "Limit" -> Limit(b, c.v[1])

\* the record of the calls after one more configuration call op
Record(op) == [calls EXCEPT !.n = @ + 1, !.ops = @ \cup {op}]

Configure(c, b) ==
    /\ calls.n < MaxCalls
    /\ qb' = b
    /\ calls' = c
    /\ out' = NoOut
    /\ UNCHANGED <<T, rvars, uvars>>

CallInsert ==
    \E data \in CallerEntities(T) :
        Configure([Record("Insert") EXCEPT !.ins = Append(@, data)], Insert(qb, T, data))

CallUpdate ==
    \E data \in CallerEntities(T) :
        Configure([Record("Update") EXCEPT !.sets = Append(@, data)], Update(qb, T, data))

CallDelete == Configure(Record("Delete"), Delete(qb))

CallSelect == \E fields \in SelectInputs : Configure(Record("Select"), Select(qb, fields))

CallWhereEqual ==
    \E w \in WhereInputs :
        Configure([Record("WhereEqual") EXCEPT !.wheres = Append(@, w)], WhereEqual(qb, w[1], w[2]))

CallOrderByASC == \E field \in OrderFields : Configure(Record("OrderByASC"), OrderByASC(qb, field))

CallOrderByDESC == \E field \in OrderFields : Configure(Record("OrderByDESC"), OrderByDESC(qb, field))

CallJoin == \E j \in JoinInputs : Configure(Record("Join"), Join(qb, j[1], j[2]))

CallLimit == \E n \in LimitInputs : Configure(Record("Limit"), Limit(qb, n))

CallBuild ==
    /\ out.n < MaxBuilds
    /\ LET r == Build(qb, T)
       IN /\ qb' = r.qb
          /\ out' = [n |-> out.n + 1, sql |-> r.sql, args |-> r.args]
    /\ calls' = [calls EXCEPT !.ops = @ \cup {"Build"}]
    /\ UNCHANGED <<T, rvars, uvars>>

----------------------------------------------------------------------------
(* Reading a rendered statement *)

StatementKind(sql) ==
    IF HasPrefix(sql, "INSERT INTO ") THEN "INSERT"
    ELSE IF HasPrefix(sql, "UPDATE ") THEN "UPDATE"
    ELSE IF HasPrefix(sql, "DELETE FROM ") THEN "DELETE"
    ELSE IF HasPrefix(sql, "SELECT ") THEN "SELECT"
    ELSE "NONE"

\* the table each entity type is expected to map to
ExpectedTable ==
    CASE T = "User" -> "user"
      [] T = "Metric" -> "metric"
      [] T = "Empty" -> "empty"

----------------------------------------------------------------------------

(* The database behind *sql.DB, as far as the repository can observe it:   *)
(* rows is the set of ID values of the rows of T's table.                  *)

DbErrors == {"ErrConn"}

RECURSIVE Ascending(_)
Ascending(S) ==
    IF S = {} THEN <<>>
    ELSE LET m == CHOOSE x \in S : \A y \in S : x <= y
         IN <<m>> \o Ascending(S \ {m})

\* the ID a statement's first placeholder is bound to, when it has one
FirstArg(args) == IF Len(args) > 0 THEN {args[1]} ELSE {}

\* the rows of the table after the statement ran
DbEffect(sql, args, tbl) ==
    IF StatementKind(sql) = "DELETE" /\ Contains(sql, " WHERE ID = ?") THEN tbl \ FirstArg(args)
    ELSE IF StatementKind(sql) = "INSERT" /\ Contains(sql, " (ID") THEN tbl \cup FirstArg(args)
    ELSE tbl

\* the IDs of the rows the statement returns, in cursor order
DbResult(sql, args, tbl) ==
    IF StatementKind(sql) # "SELECT" THEN <<>>
    ELSE IF Contains(sql, " WHERE ID = ?") THEN Ascending(tbl \cap FirstArg(args))
    ELSE Ascending(tbl)

\* the error the store answers a statement with ("" is none)
DbOutcomes(sql, args, tbl) ==
    IF StatementKind(sql) = "INSERT" /\ Contains(sql, " (ID") /\ FirstArg(args) \subseteq tbl
    THEN DbErrors \cup {"ErrConstraint"}
    ELSE DbErrors \cup {""}

----------------------------------------------------------------------------
(* type GenericRepository[T, TKey] and its methods.  sent is every         *)
(* statement handed to the database handle, with the error it answered;    *)
(* ret is what the most recent method call returned.                       *)

NoRet == [op |-> "", arg |-> <<>>, err |-> "", val |-> <<>>, panicked |-> FALSE,
          nsent |-> 0, cur |-> "none"]

Return(op, arg, err, val, nsent, cur) ==
    [op |-> op, arg |-> arg, err |-> err, val |-> val, panicked |-> FALSE,
     nsent |-> nsent, cur |-> cur]

\* rows changed by a statement: what sql.Result.RowsAffected would report
Affected(before, after) == Cardinality(before \ after) + Cardinality(after \ before)

Statement(via, r, err, affected) ==
    [via |-> via, sql |-> r.sql, args |-> r.args, err |-> err, affected |-> affected]

CursorStatus(c) == IF c.open THEN "open" ELSE "closed"

NoCursor == [open |-> FALSE, pending |-> <<>>]

CanCall == pc = "idle" /\ Len(sent) < MaxOps

GetByID ==
    /\ CanCall
    /\ \E id \in Ids :
         LET r == Build(Limit(WhereEqual(NewQueryBuilder, "ID", id), 1), T)
             found == DbResult(r.sql, r.args, rows)
         IN \E dberr \in DbOutcomes(r.sql, r.args, rows), scanOk \in BOOLEAN :
              LET err == IF dberr # "" THEN dberr
                         ELSE IF found = <<>> THEN "ErrNoRows"
                         ELSE IF ~scanOk THEN "ErrScan"
                         ELSE ""
              IN /\ rows' = IF dberr = "" THEN DbEffect(r.sql, r.args, rows) ELSE rows
                 /\ sent' = Append(sent, Statement("QueryRow", r, dberr, Affected(rows, rows')))
                 /\ ret' = Return("GetByID", <<id>>, err,
                                  IF err = "" THEN <<found[1]>> ELSE <<>>,
                                  Len(sent') - Len(sent), "none")
    /\ UNCHANGED <<T, uvars, bvars, pc, cursor, results>>

\* lines 292-301: build, Query, and on success defer rows.Close()
GetAllQuery ==
    /\ CanCall
    /\ LET r == Build(NewQueryBuilder, T)
       IN \E dberr \in DbOutcomes(r.sql, r.args, rows) :
            /\ rows' = IF dberr = "" THEN DbEffect(r.sql, r.args, rows) ELSE rows
            /\ sent' = Append(sent, Statement("Query", r, dberr, Affected(rows, rows')))
            /\ IF dberr # ""
               THEN /\ ret' = Return("GetAll", <<>>, dberr, <<>>, Len(sent') - Len(sent), "none")
                    /\ UNCHANGED <<pc, cursor, results>>
               ELSE /\ cursor' = [open |-> TRUE, pending |-> DbResult(r.sql, r.args, rows)]
                    /\ results' = <<>>
                    /\ pc' = "GetAll_loop"
                    /\ ret' = [NoRet EXCEPT !.nsent = Len(sent') - Len(sent)]
    /\ UNCHANGED <<T, uvars, bvars>>

\* the scan-error exit of GetAllScan without the deferred rows.Close()
ScanErrorExit_NoClose ==
    /\ pc' = "idle"
    /\ cursor' = [cursor EXCEPT !.pending = <<>>]
    /\ results' = <<>>
    /\ ret' = Return("GetAll", <<>>, "ErrScan", <<>>, ret.nsent, CursorStatus(cursor'))

\* return nil, err from inside the loop; the deferred rows.Close() runs
ScanErrorExit ==
    /\ pc' = "idle"
    /\ cursor' = NoCursor
    /\ results' = <<>>
    /\ ret' = Return("GetAll", <<>>, "ErrScan", <<>>, ret.nsent, CursorStatus(cursor'))

\* the loop body putting each scanned entity in front of the results
GetAllScan_Prepend ==
    /\ pc = "GetAll_loop"
    /\ cursor.pending # <<>>
    /\ \E scanOk \in BOOLEAN :
         IF scanOk
         THEN /\ results' = <<Head(cursor.pending)>> \o results
              /\ cursor' = [cursor EXCEPT !.pending = Tail(@)]
              /\ UNCHANGED <<pc, ret>>
         ELSE ScanErrorExit
    /\ UNCHANGED <<T, uvars, bvars, rows, sent>>

\* lines 303-309: rows.Next() answered true, then rows.Scan(&entity)
GetAllScan ==
    /\ pc = "GetAll_loop"
    /\ cursor.pending # <<>>
    /\ \E scanOk \in BOOLEAN :
         IF scanOk
         THEN /\ results' = Append(results, Head(cursor.pending))
              /\ cursor' = [cursor EXCEPT !.pending = Tail(@)]
              /\ UNCHANGED <<pc, ret>>
         ELSE ScanErrorExit
    /\ UNCHANGED <<T, uvars, bvars, rows, sent>>

\* lines 303, 310: rows.Next() answered false (no row left, or the iteration
\* failed; rows.Err() is not consulted); return results, nil and the deferred
\* rows.Close() runs
GetAllReturn ==
    /\ pc = "GetAll_loop"
    /\ pc' = "idle"
    /\ cursor' = NoCursor
    /\ results' = <<>>
    /\ ret' = Return("GetAll", <<>>, "", results, ret.nsent, CursorStatus(cursor'))
    /\ UNCHANGED <<T, uvars, bvars, rows, sent>>

\* the Exec round trip with the error of the store dropped
ExecAndReturn_DropErr(op, arg, r) ==
    \E dberr \in DbOutcomes(r.sql, r.args, rows) :
        /\ rows' = IF dberr = "" THEN DbEffect(r.sql, r.args, rows) ELSE rows
        /\ sent' = Append(sent, Statement("Exec", r, dberr, Affected(rows, rows')))
        /\ ret' = Return(op, arg, "", <<>>, Len(sent') - Len(sent), "none")

\* _, err := r.db.Exec(sql, args...); return err
ExecAndReturn(op, arg, r) ==
    \E dberr \in DbOutcomes(r.sql, r.args, rows) :
        /\ rows' = IF dberr = "" THEN DbEffect(r.sql, r.args, rows) ELSE rows
        /\ sent' = Append(sent, Statement("Exec", r, dberr, Affected(rows, rows')))
        /\ ret' = Return(op, arg, dberr, <<>>, Len(sent') - Len(sent), "none")

Create ==
    /\ CanCall
    /\ \E ent \in Entities(T) :
         ExecAndReturn("Create", ent, Build(Insert(NewQueryBuilder, T, ent), T))
    /\ UNCHANGED <<T, uvars, bvars, pc, cursor, results>>

\* reflect.ValueOf(ent).Elem().FieldByName("ID").Interface() panics on the zero
\* Value FieldByName returns when T has no field ID
RepoUpdate ==
    /\ CanCall
    /\ \E ent \in Entities(T) :
         IF FieldIndex(T, "ID") = 0
         THEN /\ UNCHANGED <<rows, sent>>
              /\ ret' = [NoRet EXCEPT !.op = "Update", !.arg = ent, !.panicked = TRUE]
              /\ pc' = "panicked"
         ELSE /\ LET idValue == ent[FieldIndex(T, "ID")]
                 IN ExecAndReturn("Update", ent,
                        Build(WhereEqual(Update(NewQueryBuilder, T, ent), "ID", idValue), T))
              /\ UNCHANGED pc
    /\ UNCHANGED <<T, uvars, bvars, cursor, results>>

RepoDelete ==
    /\ CanCall
    /\ \E id \in Ids :
         ExecAndReturn("Delete", <<id>>, Build(WhereEqual(Delete(NewQueryBuilder), "ID", id), T))
    /\ UNCHANGED <<T, uvars, bvars, pc, cursor, results>>

----------------------------------------------------------------------------
(* package result: the RestfulResult envelope and its constructors.  A     *)
(* constructor call either returns an envelope or panics.                  *)

RestfulResult(data, message, code, success) ==
    [Data |-> data, Message |-> message, Code |-> code, Success |-> success]

Returns(v) == [panic |-> "", value |-> <<v>>]
Panics(msg) == [panic |-> msg, value |-> <<>>]

NewSuccessResult(data, message) ==
    Returns(RestfulResult(data, message, 200, TRUE))

\* the range test letting 300 through
NewSuccessResultWithCode_Through300(data, code, message) ==
    IF code < 200 \/ code > 300
    THEN Panics("Success code must be in the range 200-299")
    ELSE Returns(RestfulResult(data, message, code, TRUE))

NewSuccessResultWithCode(data, code, message) ==
    IF code < 200 \/ code >= 300
    THEN Panics("Success code must be in the range 200-299")
    ELSE Returns(RestfulResult(data, message, code, TRUE))

\* Data is left at the zero value of T
NewErrorResult(message, code) ==
    Returns(RestfulResult(0, message, code, FALSE))

DataInputs == {1, 2}
MessageInputs == {"ok", "not found"}
CodeInputs == {199, 200, 299, 300, 404}

Made(ctor, data, code, message, outcome) ==
    /\ Len(envelopes) < MaxEnvelopes
    /\ envelopes' = Append(envelopes, [ctor |-> ctor, data |-> data, code |-> code,
                                       message |-> message, panic |-> outcome.panic,
                                       value |-> outcome.value])
    /\ UNCHANGED <<T, bvars, rvars, modelFieldCache, registrar, registered, lookup>>

CallNewSuccessResult ==
    \E d \in DataInputs, m \in MessageInputs :
        Made("NewSuccessResult", <<d>>, <<>>, m, NewSuccessResult(d, m))

CallNewSuccessResultWithCode ==
    \E d \in DataInputs, c \in CodeInputs, m \in MessageInputs :
        Made("NewSuccessResultWithCode", <<d>>, <<c>>, m, NewSuccessResultWithCode(d, c, m))

CallNewErrorResult ==
    \E m \in MessageInputs, c \in CodeInputs :
        Made("NewErrorResult", <<>>, <<c>>, m, NewErrorResult(m, c))

----------------------------------------------------------------------------
(* package utils: the model field registry.  Struct types are named with   *)
(* their package, as reflect.Type identifies them; a tag is <<>> when the  *)
(* field has no `db` key and <<value>> when it has one.                    *)

ModelTypes == {"entity.User", "dto.User", "entity.Order"}

StructFields(t) ==
    CASE t = "entity.User"  -> << [Name |-> "ID", Tag |-> <<"id">>], [Name |-> "Name", Tag |-> <<>>] >>
      [] t = "dto.User"     -> << [Name |-> "ID", Tag |-> <<>>], [Name |-> "Email", Tag |-> <<"email">>] >>
      [] t = "entity.Order" -> << [Name |-> "ID", Tag |-> <<"order_id">>] >>

\* reflect.Type.Name(): the name of the type within its package
TypeName(t) ==
    LET dots == {i \in 1..Len(t) : SubSeq(t, i, i) = "."}
    IN IF dots = {} THEN t
       ELSE LET last == CHOOSE i \in dots : \A j \in dots : j <= i
            IN SubSeq(t, last + 1, Len(t))

\* field.Tag.Lookup("db")
TagLookup(field) ==
    IF Len(field.Tag) > 0 THEN [ok |-> TRUE, value |-> field.Tag[1]]
    ELSE [ok |-> FALSE, value |-> ""]

EmptyMap == [k \in {} |-> ""]
EmptyCache == [k \in {} |-> EmptyMap]

Procs == {1, 2}
ModelLists == {<<t>> : t \in ModelTypes} \cup {<<"entity.User", "entity.Order">>}
FieldNameInputs == {"ID", "Name", "Email", "Zip"}

Idle == [pc |-> "idle", models |-> <<>>, i |-> 0, fieldMap |-> EmptyMap]
StartModel(models) == [pc |-> "fill", models |-> models, i |-> 1, fieldMap |-> EmptyMap]
NoLookup == [op |-> "", model |-> "", field |-> "", known |-> FALSE,
             panic |-> "", column |-> "", fields |-> <<>>]

\* RegisterModels(models...): goroutine g starts on the first model
RegisterModels(g) ==
    /\ registrar[g].pc = "idle"
    /\ registered.calls < MaxRegs
    /\ \E models \in ModelLists :
          registrar' = [registrar EXCEPT ![g] = StartModel(models)]
    /\ registered' = [registered EXCEPT !.calls = @ + 1]
    /\ UNCHANGED <<T, bvars, rvars, envelopes, modelFieldCache, lookup>>

\* one pass of registerModel's loop: fieldMap[field.Name] = column
registerModelField(g) ==
    LET r == registrar[g]
    IN /\ r.pc = "fill"
       /\ r.i <= Len(StructFields(Head(r.models)))
       /\ LET field == StructFields(Head(r.models))[r.i]
              tag == TagLookup(field)
              column == IF tag.ok THEN tag.value ELSE field.Name
          IN registrar' = [registrar EXCEPT ![g].fieldMap = (field.Name :> column) @@ @,
                                            ![g].i = @ + 1]
       /\ UNCHANGED <<T, bvars, rvars, envelopes, modelFieldCache, registered, lookup>>

\* the end of registerModel, modelFieldCache.Store(t.Name(), fieldMap), and the
\* step of RegisterModels' loop to the next model
registerModelStore(g) ==
    LET r == registrar[g]
    IN /\ r.pc = "fill"
       /\ r.i > Len(StructFields(Head(r.models)))
       /\ modelFieldCache' = (TypeName(Head(r.models)) :> r.fieldMap) @@ modelFieldCache
       /\ registered' = [registered EXCEPT !.models = @ \cup {Head(r.models)}]
       /\ registrar' = [registrar EXCEPT ![g] =
                           IF Len(r.models) > 1 THEN StartModel(Tail(r.models)) ELSE Idle]
       /\ UNCHANGED <<T, bvars, rvars, envelopes, lookup>>

\* GetField(model, fieldName) on the cache as it is
GetField(cache, model, fieldName) ==
    IF /\ TypeName(model) \in DOMAIN cache
       /\ fieldName \in DOMAIN cache[TypeName(model)]
    THEN [panic |-> "", column |-> cache[TypeName(model)][fieldName], fields |-> <<>>]
    ELSE [panic |-> "Field not found: " \o fieldName, column |-> "", fields |-> <<>>]

\* GetFields[T]() on the cache as it is
GetFields(cache, t) ==
    IF TypeName(t) \in DOMAIN cache
    THEN [panic |-> "", column |-> "", fields |-> <<cache[TypeName(t)]>>]
    ELSE [panic |-> "Fields not found for model: " \o TypeName(t), column |-> "", fields |-> <<>>]

Looked(op, model, field, r) ==
    /\ lookup' = [op |-> op, model |-> model, field |-> field,
                  known |-> model \in registered.models,
                  panic |-> r.panic, column |-> r.column, fields |-> r.fields]
    /\ UNCHANGED <<T, bvars, rvars, envelopes, modelFieldCache, registrar, registered>>

CallGetField ==
    \E model \in ModelTypes, fieldName \in FieldNameInputs :
        Looked("GetField", model, fieldName, GetField(modelFieldCache, model, fieldName))

CallGetFields ==
    \E t \in ModelTypes : Looked("GetFields", t, "", GetFields(modelFieldCache, t))

UtilInit ==
    /\ envelopes = <<>>
    /\ modelFieldCache = EmptyCache
    /\ registrar = [g \in Procs |-> Idle]
    /\ registered = [calls |-> 0, models |-> {}]
    /\ lookup = NoLookup

----------------------------------------------------------------------------

RepoInit ==
    /\ sent = <<>>
    /\ pc = "idle"
    /\ cursor = NoCursor
    /\ results = <<>>
    /\ ret = NoRet

Init ==
    /\ T \in EntityTypes
    /\ qb = NewQueryBuilder
    /\ calls = NoCalls
    /\ out = NoOut
    /\ rows = {}
    /\ RepoInit
    /\ UtilInit

Next ==
    \/ CallInsert
    \/ CallUpdate
    \/ CallDelete
    \/ CallSelect
    \/ CallWhereEqual
    \/ CallOrderByASC
    \/ CallOrderByDESC
    \/ CallJoin
    \/ CallLimit
    \/ CallBuild

Spec == Init /\ [][Next]_vars

RepoSpecInit ==
    /\ T \in EntityTypes
    /\ qb = NewQueryBuilder
    /\ calls = NoCalls
    /\ out = NoOut
    /\ rows \in SUBSET Ids
    /\ RepoInit
    /\ UtilInit

RepoNext ==
    \/ GetByID
    \/ GetAllQuery
    \/ GetAllScan
    \/ GetAllReturn
    \/ Create
    \/ RepoUpdate
    \/ RepoDelete

RepoSpec == RepoSpecInit /\ [][RepoNext]_vars

ResultNext ==
    \/ CallNewSuccessResult
    \/ CallNewSuccessResultWithCode
    \/ CallNewErrorResult

ResultSpec == Init /\ [][ResultNext]_vars

RegistryNext ==
    \/ \E g \in Procs : RegisterModels(g)
    \/ \E g \in Procs : registerModelField(g)
    \/ \E g \in Procs : registerModelStore(g)
    \/ CallGetField
    \/ CallGetFields

RegistrySpec == Init /\ [][RegistryNext]_vars

TypeOK == calls.n <= MaxCalls
----------------------------------------------------------------------------

Built == out.n >= 1

----------------------------------------------------------------------------
(* Claims about the query builder, checked under Spec *)

\* the builder was configured by exactly Select("id","name"), WhereEqual("age",25),
\* OrderByASC("name"), Limit(10) and then built once
C1_ExampleChain ==
    /\ T = "User"
    /\ out.n = 1
    /\ calls.n = 4
    /\ calls.ops = {"Select", "WhereEqual", "OrderByASC", "Limit", "Build"}
    /\ qb.selectFields = <<"id", "name">>
    /\ qb.whereClauses = <<"age = ?">>
    /\ qb.orderBy = <<"name ASC">>
    /\ qb.limit = 10

\* C1: Select("id","name").WhereEqual("age",25).OrderByASC("name").Limit(10).Build()
\* on a User builder returns "SELECT id, name FROM user WHERE age = ? ORDER BY name
\* ASC LIMIT ?" with arguments [25, 10]; a builder with select fields and
\* where-clauses but no insert/update fields renders a SELECT with a WHERE clause.
C1_SelectWithWhereRendersSelect ==
    /\ C1_ExampleChain =>
          /\ out.sql = "SELECT id, name FROM user WHERE age = ? ORDER BY name ASC LIMIT ?"
          /\ out.args = <<25, 10>>
    /\ (/\ Built
        /\ Len(qb.selectFields) > 0
        /\ Len(qb.whereClauses) > 0
        /\ Len(qb.insertFields) = 0
        /\ Len(qb.updateFields) = 0) =>
          /\ StatementKind(out.sql) = "SELECT"
          /\ Contains(out.sql, " WHERE ")

Priority(b) ==
    IF Len(b.insertFields) > 0 THEN "INSERT"
    ELSE IF Len(b.updateFields) > 0 THEN "UPDATE"
    ELSE IF Len(b.whereClauses) > 0 THEN "DELETE"
    ELSE "SELECT"

InsertOnly ==
    /\ StatementKind(out.sql) = "INSERT"
    /\ ~Contains(out.sql, " WHERE ")
    /\ out.args = qb.insertValues
    /\ \A i \in 1..Len(out.args) : \A w \in WhereInputs : out.args[i] # w[2]

\* C3: a builder on which Insert(entity) and WhereEqual(...) were both called
\* renders only the INSERT statement: no WHERE clause, and the arguments are
\* exactly the inserted field values.
C3_InsertAndWhereRendersInsert ==
    (Built /\ Called("Insert") /\ Called("WhereEqual")) => InsertOnly

\* C4: Build() on a freshly constructed builder returns "SELECT * FROM <table>",
\* <table> the lower-cased type name, with an empty argument list.
C4_EmptyBuilderSelectsAll ==
    (Built /\ calls.n = 0) =>
        /\ out.sql = "SELECT * FROM " \o ExpectedTable
        /\ out.args = <<>>

C4_Witness ==
    /\ Built
    /\ calls.n = 0
    /\ T = "User"
    /\ out.sql = "SELECT * FROM user"
----------------------------------------------------------------------------
(* Claims about the repository, checked under RepoSpec *)

LastSent == sent[Len(sent)]

Returned(op) == pc = "idle" /\ ret.op = op /\ ~ret.panicked

\* C5: GetByID(id) executes exactly one statement, the single-row read
\* "SELECT * FROM <table> WHERE ID = ? LIMIT ?" with arguments [id, 1], and never
\* sends a DELETE, UPDATE or INSERT.
C5_GetByIDSendsSingleRowRead ==
    Returned("GetByID") =>
        /\ ret.nsent = 1
        /\ StatementKind(LastSent.sql) = "SELECT"
        /\ LastSent.sql = "SELECT * FROM " \o ExpectedTable \o " WHERE ID = ? LIMIT ?"
        /\ LastSent.args = <<ret.arg[1], 1>>

\* C6: Delete(id) executes exactly one statement "DELETE FROM <table> WHERE ID = ?"
\* with arguments [id] and returns the error of the execution unchanged: none
\* when the execution succeeded, also when no row was deleted.
C6_DeleteSendsOneDelete ==
    Returned("Delete") =>
        /\ ret.nsent = 1
        /\ LastSent.via = "Exec"
        /\ LastSent.sql = "DELETE FROM " \o ExpectedTable \o " WHERE ID = ?"
        /\ LastSent.args = ret.arg
        /\ ret.err = LastSent.err

C6_Witness ==
    /\ Returned("Delete")
    /\ ret.err = ""
    /\ LastSent.affected = 0
    /\ T = "User"
    /\ LastSent.sql = "DELETE FROM user WHERE ID = ?"

SetList == StringsJoin([i \in 1..Len(FieldNames(T)) |-> FieldNames(T)[i] \o " = ?"], ", ")

\* C7: Update(entity) of an entity with an ID field executes exactly one statement
\* "UPDATE <table> SET f1 = ?, ..., fn = ? WHERE ID = ?", one SET fragment per
\* declared field in declaration order, with the n field values followed by the
\* ID value as arguments.
C7_UpdateSetsEveryFieldWhereID ==
    (Returned("Update") /\ FieldIndex(T, "ID") # 0) =>
        /\ ret.nsent = 1
        /\ LastSent.via = "Exec"
        /\ LastSent.sql = "UPDATE " \o ExpectedTable \o " SET " \o SetList \o " WHERE ID = ?"
        /\ LastSent.args = ret.arg \o <<ret.arg[FieldIndex(T, "ID")]>>
        /\ Len(LastSent.args) = Len(FieldNames(T)) + 1
        /\ Count(LastSent.sql, "?") = Len(FieldNames(T)) + 1
        /\ (T = "User" => LastSent.sql = "UPDATE user SET ID = ?, Age = ? WHERE ID = ?")

C7_Witness ==
    /\ Returned("Update")
    /\ T = "User"
    /\ ret.arg = <<2, 30>>
    /\ LastSent.args = <<2, 30, 2>>
    /\ ret.err = ""

\* C8: Update(entity) of an entity whose type has no field ID returns a typed
\* error, executes no statement and does not panic.
C8_UpdateWithoutIDReturnsError ==
    (ret.op = "Update" /\ FieldIndex(T, "ID") = 0) =>
        /\ ~ret.panicked
        /\ pc = "idle"
        /\ ret.err # ""
        /\ ret.nsent = 0

\* C9: whenever GetAll has returned, a cursor it opened is closed (after the
\* normal end of the iteration, an empty result set, or a scan error), and when
\* the query itself failed no cursor was opened.
C9_GetAllReleasesCursor ==
    /\ pc # "GetAll_loop" => ~cursor.open
    /\ Returned("GetAll") =>
          /\ ret.cur # "open"
          /\ LastSent.err # "" <=> ret.cur = "none"

\* GetAll returned a scan error after it had opened a cursor
C9_Witness ==
    /\ Returned("GetAll")
    /\ ret.err = "ErrScan"
    /\ ret.cur = "closed"
    /\ ~cursor.open

\* C10: GetByID(id) returns the no-rows error and a nil entity when no row has
\* that ID, an error different from it when the execution fails, and the entity
\* with no error when a row has that ID and scans.
C10_GetByIDNotFoundOrEntity ==
    [][(ret'.op = "GetByID" /\ Len(sent') = Len(sent) + 1) =>
          LET id == ret'.arg[1]
              st == sent'[Len(sent')]
          IN /\ (st.err = "" /\ id \notin rows) => (ret'.err = "ErrNoRows" /\ ret'.val = <<>>)
             /\ st.err # "" => (ret'.err = st.err /\ ret'.err # "ErrNoRows" /\ ret'.val = <<>>)
             /\ (st.err = "" /\ id \in rows /\ ret'.err # "ErrScan") =>
                    (ret'.err = "" /\ ret'.val = <<id>>)]_vars

\* C11: GetAll() executes one unfiltered "SELECT * FROM <table>" with no
\* arguments and returns the scanned rows in cursor order; on an empty result set
\* it returns an empty sequence and no error, and on a scan failure it returns
\* that error and no rows.
C11_GetAllReturnsRowsInCursorOrder ==
    Returned("GetAll") =>
        /\ ret.nsent = 1
        /\ LastSent.via = "Query"
        /\ LastSent.sql = "SELECT * FROM " \o ExpectedTable
        /\ LastSent.args = <<>>
        /\ ret.err = "" =>
              /\ Len(ret.val) <= Cardinality(rows)
              /\ ret.val = SubSeq(Ascending(rows), 1, Len(ret.val))
        /\ (LastSent.err = "" /\ rows = {}) => (ret.err = "" /\ ret.val = <<>>)
        /\ ret.err # "" => ret.val = <<>>
        /\ ret.err \in {"", "ErrScan", LastSent.err}

\* GetAll returned two rows in the order the cursor delivered them
C11_Witness ==
    /\ Returned("GetAll")
    /\ ret.err = ""
    /\ ret.val = <<1, 2>>
    /\ T = "User"
    /\ LastSent.sql = "SELECT * FROM user"
----------------------------------------------------------------------------
(* Claims about repeated builds and single methods of the builder, checked *)
(* under Spec                                                              *)

\* C14: on a builder that renders a SELECT with a positive limit n every Build()
\* appends n once more to the shared argument list: the k-th consecutive Build()
\* returns the same text, with one LIMIT ? placeholder, and arguments ending in k
\* copies of n; otherwise a repeated Build() returns the same (text, arguments).
C14_BuildAppendsLimitEachTime ==
    [][out'.n = out.n + 1 =>
          LET limited == StatementKind(out'.sql) = "SELECT" /\ qb.limit > 0
              n == qb.limit
              last == Len(out'.args)
          IN /\ limited =>
                   /\ out'.args = qb.whereArgs \o <<n>>
                   /\ qb'.whereArgs = out'.args
                   /\ Count(out'.sql, "?") = 1
                   /\ last >= out'.n
                   /\ \A i \in 0..(out'.n - 1) : out'.args[last - i] = n
                   /\ out.n >= 1 => (out'.sql = out.sql /\ out'.args = out.args \o <<n>>)
             /\ (~limited /\ out.n >= 1) => (out'.sql = out.sql /\ out'.args = out.args)]_vars

\* the second Build() in a row returned the limit twice
C14_Witness ==
    /\ T = "User"
    /\ out.n = 2
    /\ out.sql = "SELECT * FROM user LIMIT ?"
    /\ out.args = <<10, 10>>

\* C15: Limit(n) only stores n and adds no argument when it is called; moving
\* the Limit(n) call across any other configuration call leaves the builder,
\* and so what Build() returns, the same; whenever Build() renders LIMIT ? the
\* limit is the last argument; of several Limit calls the last one wins; a
\* limit of 0 or less renders no LIMIT clause and adds no argument.
C15_LimitStoredAndBoundAtBuild ==
    /\ \A n \in LimitInputs :
          /\ Limit(qb, n).whereArgs = qb.whereArgs
          /\ Limit(qb, n).limit = n
          /\ \A m \in LimitInputs : Limit(Limit(qb, m), n) = Limit(qb, n)
          /\ (~Built /\ calls.n < MaxCalls) =>
                \A c \in ConfigMenu(T) :
                   c.op # "Limit" => Apply(c, Limit(qb, n), T) = Limit(Apply(c, qb, T), n)
    /\ Built =>
          /\ Contains(out.sql, " LIMIT ?") =>
                /\ qb.limit > 0
                /\ out.args = qb.whereArgs
                /\ out.args[Len(out.args)] = qb.limit
          /\ qb.limit <= 0 =>
                /\ ~Contains(out.sql, "LIMIT")
                /\ out.args \in {qb.whereArgs, qb.insertValues}

\* Limit(10) was called before other configuration calls and the limit is the
\* last argument of the statement built
C15_Witness ==
    /\ Built
    /\ calls.ops = {"Limit", "Select", "OrderByDESC", "Build"}
    /\ Contains(out.sql, " LIMIT ?")
    /\ out.args = <<10>>

HasSuffix(str, suffix) ==
    Len(str) >= Len(suffix) /\ SubSeq(str, Len(str) - Len(suffix) + 1, Len(str)) = suffix

RECURSIVE Flatten(_)
Flatten(seqs) == IF Len(seqs) = 0 THEN <<>> ELSE Head(seqs) \o Flatten(Tail(seqs))

\* what the WhereEqual calls made so far are expected to have left, in call order
WhereFragments == [i \in 1..Len(calls.wheres) |-> calls.wheres[i][1] \o " = ?"]
WhereValues == [i \in 1..Len(calls.wheres) |-> calls.wheres[i][2]]
IsWhereValue(v) == \E w \in WhereInputs : v = w[2]

\* C16: each WhereEqual(field, value) appends exactly one fragment "<field> = ?"
\* and one value; every statement with a WHERE clause joins the fragments with
\* " AND " in call order, and the where values are in the argument list in the
\* order of their fragments.
C16_WhereClausesInCallOrder ==
    /\ qb.whereClauses = WhereFragments
    /\ SelectSeq(qb.whereArgs, IsWhereValue) = WhereValues
    /\ (Built /\ Contains(out.sql, " WHERE ")) =>
          /\ HasSuffix(out.sql, " WHERE " \o StringsJoin(WhereFragments, " AND "))
          /\ SelectSeq(out.args, IsWhereValue) = WhereValues

C16_Witness ==
    /\ Built
    /\ T = "User"
    /\ calls.wheres = <<(<<"age", 25>>), (<<"id", 7>>)>>
    /\ out.sql = "DELETE FROM user WHERE age = ? AND id = ?"
    /\ out.args = <<25, 7>>

\* the columns and placeholders the Insert calls made so far are expected to give
InsertColumns == Flatten([i \in 1..Len(calls.ins) |-> FieldNames(T)])
InsertMarks == [i \in 1..Len(InsertColumns) |-> "?"]

\* C17: Insert(entity) appends one column name and one value per declared field,
\* in declaration order, zero values included, so both lists have the same
\* length; the INSERT lists the columns in that order with one ? per column and
\* its arguments are the values; a second Insert accumulates in the same lists.
C17_InsertColumnsAndValuesParallel ==
    /\ Len(qb.insertFields) = Len(qb.insertValues)
    /\ qb.insertFields = InsertColumns
    /\ qb.insertValues = Flatten(calls.ins)
    /\ (Built /\ StatementKind(out.sql) = "INSERT") =>
          /\ out.sql = "INSERT INTO " \o ExpectedTable \o " ("
                       \o StringsJoin(InsertColumns, ", ") \o ") VALUES ("
                       \o StringsJoin(InsertMarks, ", ") \o ")"
          /\ out.args = Flatten(calls.ins)
          /\ Count(out.sql, "?") = Len(out.args)

\* two Insert calls with a zero value, rendered in one statement
C17_Witness ==
    /\ Built
    /\ T = "Metric"
    /\ calls.ins = <<(<<0>>), (<<0>>)>>
    /\ out.sql = "INSERT INTO metric (Value, Value) VALUES (?, ?)"
    /\ out.args = <<0, 0>>

C20_UpdateArgsSetThenWhere ==
    (Built /\ StatementKind(out.sql) = "UPDATE") =>
        out.args = Flatten(calls.sets) \o WhereValues

\* C21: for every sequence of configuration calls on a builder of an entity
\* type with at least one field (no field name or join condition holds a ?),
\* the first Build() returns a text with as many ? placeholders as the argument
\* list it returns has elements, whichever statement kind it is.
C21_FirstBuildPlaceholdersMatchArgs ==
    [][(/\ Len(FieldNames(T)) > 0
        /\ "Build" \notin calls.ops
        /\ out.n = 0
        /\ out'.n = 1) =>
            Count(out'.sql, "?") = Len(out'.args)]_vars

\* an UPDATE with two SET placeholders and one WHERE placeholder, built once
\* after two configuration calls
C21_Witness ==
    /\ T = "User"
    /\ out.n = 1
    /\ calls.n = 2
    /\ calls.ops = {"Update", "WhereEqual", "Build"}
    /\ out.sql = "UPDATE user SET ID = ?, Age = ? WHERE id = ?"
    /\ Count(out.sql, "?") = 3
    /\ Len(out.args) = 3

----------------------------------------------------------------------------
(* Claim about the result envelope, checked under ResultSpec *)

SuccessCodes == 200..299

\* C13: every envelope with Success = true has a Code in 200..299:
\* NewSuccessResult yields Code 200, NewSuccessResultWithCode yields the given
\* code when it is in 200..299 and otherwise panics without an envelope;
\* NewErrorResult yields Success = false with the given code and message.
C13_SuccessEnvelopeCodeInRange ==
    \A k \in 1..Len(envelopes) :
        LET e == envelopes[k]
        IN /\ (e.value # <<>> /\ e.value[1].Success) => e.value[1].Code \in SuccessCodes
           /\ e.ctor = "NewSuccessResult" =>
                 /\ e.panic = ""
                 /\ e.value = <<RestfulResult(e.data[1], e.message, 200, TRUE)>>
           /\ e.ctor = "NewSuccessResultWithCode" =>
                 IF e.code[1] \in SuccessCodes
                 THEN /\ e.panic = ""
                      /\ e.value = <<RestfulResult(e.data[1], e.message, e.code[1], TRUE)>>
                 ELSE /\ e.panic # ""
                      /\ e.value = <<>>
           /\ e.ctor = "NewErrorResult" =>
                 /\ e.panic = ""
                 /\ Len(e.value) = 1
                 /\ ~e.value[1].Success
                 /\ e.value[1].Code = e.code[1]
                 /\ e.value[1].Message = e.message

\* a success envelope at the upper edge of the range, then a panic just above it
C13_Witness ==
    /\ Len(envelopes) = 2
    /\ envelopes[1].ctor = "NewSuccessResultWithCode"
    /\ envelopes[1].code = <<299>>
    /\ envelopes[1].value = <<RestfulResult(1, "ok", 299, TRUE)>>
    /\ envelopes[2].ctor = "NewSuccessResultWithCode"
    /\ envelopes[2].code = <<300>>
    /\ envelopes[2].panic = "Success code must be in the range 200-299"
    /\ envelopes[2].value = <<>>

----------------------------------------------------------------------------
(* Claims about the field registry, checked under RegistrySpec *)

\* the column of a declared field: its db tag if it has one, else its name
Column(field) == IF field.Tag # <<>> THEN field.Tag[1] ELSE field.Name

DeclaredFields(t) == {StructFields(t)[k].Name : k \in 1..Len(StructFields(t))}

\* the complete mapping of type t
Columns(t) ==
    [n \in DeclaredFields(t) |->
        Column(CHOOSE f \in {StructFields(t)[k] : k \in 1..Len(StructFields(t))} : f.Name = n)]

\* C12: once RegisterModels(M) has been done, GetField(M, f) returns for every
\* declared field f of M the db tag of f if it has one and else the name of f,
\* at every later call.
C12_GetFieldReturnsTagOrName ==
    \A M \in registered.models : \A f \in DeclaredFields(M) :
        LET r == GetField(modelFieldCache, M, f)
        IN /\ r.panic = ""
           /\ r.column = Columns(M)[f]

\* C19: under every interleaving of RegisterModels with GetField / GetFields, a
\* lookup for type M either panics because M is not registered yet or sees the
\* complete mapping of M's declared fields, never a part of it; a lookup for a
\* type that was never registered, or for a field M does not declare, panics.
C19_LookupFailsOrSeesCompleteMapping ==
    lookup.op # "" =>
        /\ (lookup.op = "GetFields" /\ lookup.panic = "") =>
               lookup.fields = <<Columns(lookup.model)>>
        /\ (lookup.op = "GetField" /\ lookup.panic = "") =>
               /\ lookup.field \in DeclaredFields(lookup.model)
               /\ lookup.column = Columns(lookup.model)[lookup.field]
        /\ ~lookup.known => lookup.panic # ""
        /\ (lookup.op = "GetField" /\ lookup.field \notin DeclaredFields(lookup.model)) =>
               lookup.panic # ""
        /\ lookup.panic # "" =>
               \/ ~lookup.known
               \/ lookup.op = "GetField" /\ lookup.field \notin DeclaredFields(lookup.model)
====
